---- MODULE Spec2Model ----
(***************************************************************************)
(* Verification model of the DoH gateway in src/src/main.rs.               *)
(*                                                                         *)
(* Two specifications share the module:                                    *)
(*   Spec      the listener (DoH::entrypoint): the accept loop, the        *)
(*             live-connection counter and one task per connection, with   *)
(*             the connection deadline.  LiveSpec adds the fairness the    *)
(*             tokio scheduler and timer give.                             *)
(*   ReqSpec   the handling of one HTTP request: <DoH as Service>::call,   *)
(*             check_content_type, read_body_and_proxy and proxy.          *)
(***************************************************************************)
EXTENDS Integers, Sequences, FiniteSets, TLC

\* ---------------------------------------------------------------- bounds
\* Number of TCP connections a behaviour may open.
NConns == 2

\* Largest value of the max_clients option a behaviour may be started with.
MaxMaxClients == 1

\* Length of the connection deadline (globals.timeout), in clock ticks.
TimeoutTicks == 1

Conns == 1..NConns

VARIABLES
    \* ---- configuration (Globals), fixed after startup
    max_clients,     \* globals.max_clients
    keepalive,       \* globals.keepalive
    tls_acceptor,    \* entrypoint: the tls_acceptor built at startup: "none" | "built"
    \* ---- listener (DoH::entrypoint)
    clients_count,   \* globals.clients_count, the shared atomic counter
    lpc,             \* position of the accept loop: "accept" | "check"
    cur,             \* connection held by the current loop iteration (0: none)
    incr_ret,        \* value returned by clients_count.increment() in this iteration
    accept_failed,   \* some accept has failed so far (Err(_) => continue)
    st,              \* per connection: Idle | Accepted | Admitted | Serving | Closed | Rejected
    how,             \* per connection: exit path  none | rejected | ok | io | timeout
    incs,            \* per connection: increments done on its behalf
    decs,            \* per connection: decrements done on its behalf
    elapsed,         \* per connection: ticks since its deadline was started
    phase,           \* per connection: idle | busy | recv  (request in progress)
    parsed,          \* per connection: some HTTP request was parsed on it
    responded,       \* per connection: some HTTP response was written on it
    seen_open,       \* per connection: connections being served when it was accepted
    admit_count,     \* per connection: counter value when it was admitted (-1: not admitted)
    served_on        \* per connection: the stream given to serve_connection: none | tcp | tls

lvars == <<max_clients, keepalive, tls_acceptor, clients_count, lpc, cur, incr_ret, accept_failed,
           st, how, incs, decs, elapsed, phase, parsed, responded, seen_open,
           admit_count, served_on>>


\* ---- one HTTP request (call, check_content_type, read_body_and_proxy, proxy)
VARIABLES
    disable_post,    \* globals.disable_post
    rpc,             \* position of the request: idle | read_body | proxy | bind | send | recv | done
    req,             \* the request being handled
    examined,        \* what call looked at beyond path and method: none | ctype | dns
    chunks_read,     \* body chunks obtained from body.next()
    sum_size,        \* read_body_and_proxy: sum_size
    query_len,       \* length of the query buffer
    query_data,      \* contents of the query buffer (GET: bytes; POST: indices of the chunks)
    proxy_calls,     \* calls of proxy
    binds,           \* UdpSocket::bind calls
    sends,           \* send_to calls
    recvs,           \* recv_from completions
    packet,          \* the datagram recv_from returned
    err,             \* the DoHError the request ended with: none | Incomplete | ...
    response         \* the response of the request (status 0: none yet)

rvars == <<disable_post, rpc, req, examined, chunks_read, sum_size, query_len, query_data,
           proxy_calls, binds, sends, recvs, packet, err, response>>

\* ---- concurrent calls of proxy, each with the socket it binds
VARIABLES
    ppc,             \* per call: position  idle | send | recv | done
    sock,            \* per call: the socket its UdpSocket::bind returned (0: none)
    next_sock,       \* sockets created so far; a socket is named by its rank
    open_socks,      \* sockets that are bound and not yet dropped
    wire,            \* queries sent to the resolver and not yet answered
    inbox,           \* per socket: datagrams delivered to it and not yet read
    answer           \* per call: the datagram its recv_from returned

pvars == <<ppc, sock, next_sock, open_socks, wire, inbox, answer>>

\* ------------------------------------------------- ClientsCount (globals.rs)
\* increment(): atomic add, returns the value after the add.
Increment(n) == n + 1

\* decrement(): atomic subtract.
Decrement(n) == n - 1

\* Connections that were admitted and are not yet closed.
Open == {c \in Conns : st[c] \in {"Admitted", "Serving"}}

\* ------------------------------------------------------------- listener
LInit ==
    /\ max_clients \in 1..MaxMaxClients
    /\ keepalive \in BOOLEAN
    /\ tls_acceptor \in {"none", "built"}
    /\ clients_count = 0
    /\ lpc = "accept"
    /\ cur = 0
    /\ incr_ret = 0
    /\ accept_failed = FALSE
    /\ st = [c \in Conns |-> "Idle"]
    /\ how = [c \in Conns |-> "none"]
    /\ incs = [c \in Conns |-> 0]
    /\ decs = [c \in Conns |-> 0]
    /\ elapsed = [c \in Conns |-> 0]
    /\ phase = [c \in Conns |-> "idle"]
    /\ parsed = [c \in Conns |-> FALSE]
    /\ responded = [c \in Conns |-> FALSE]
    /\ seen_open = [c \in Conns |-> 0]
    /\ admit_count = [c \in Conns |-> -1]
    /\ served_on = [c \in Conns |-> "none"]

\* The next connection to arrive: connections are numbered in arrival order.
NextConn == CHOOSE c \in Conns : st[c] = "Idle" /\ \A d \in Conns : st[d] = "Idle" => c <= d

\* listener.incoming().next() yields Ok(stream); the counter is incremented.
AcceptOk ==
    /\ lpc = "accept"
    /\ \E c \in Conns : st[c] = "Idle"
    /\ LET c == NextConn IN
        /\ st' = [st EXCEPT ![c] = "Accepted"]
        /\ cur' = c
        /\ clients_count' = Increment(clients_count)
        /\ incr_ret' = Increment(clients_count)
        /\ incs' = [incs EXCEPT ![c] = @ + 1]
        /\ seen_open' = [seen_open EXCEPT ![c] = Cardinality(Open)]
    /\ lpc' = "check"
    /\ UNCHANGED <<max_clients, keepalive, tls_acceptor, accept_failed, how, decs, elapsed, phase,
                   parsed, responded, admit_count,
                   served_on, rvars, pvars>>

\* Mutant: a failed accept leaves the accept loop.
AcceptErr_stops ==
    /\ lpc = "accept"
    /\ accept_failed' = TRUE
    /\ lpc' = "stopped"
    /\ UNCHANGED <<max_clients, keepalive, tls_acceptor, clients_count, cur, incr_ret, st, how,
                   incs, decs, elapsed, phase, parsed, responded, seen_open, admit_count,
                   served_on, rvars, pvars>>

\* listener.incoming().next() yields Err(_): continue.
AcceptErr ==
    /\ lpc = "accept"
    /\ accept_failed' = TRUE
    /\ UNCHANGED <<max_clients, keepalive, tls_acceptor, clients_count, lpc, cur, incr_ret, st, how,
                   incs, decs, elapsed, phase, parsed, responded, seen_open, admit_count,
                   served_on, rvars, pvars>>

\* Mutant: the test compares against one more than the limit.
OverLimit_late(ret, max) == ret > max + 1

\* The admission test: increment() > max_clients.
OverLimit(ret, max) == ret > max

\* Mutant: the rejection forgets to take its increment back.
Reject_keepsCount ==
    /\ lpc = "check"
    /\ OverLimit(incr_ret, max_clients)
    /\ st' = [st EXCEPT ![cur] = "Rejected"]
    /\ how' = [how EXCEPT ![cur] = "rejected"]
    /\ lpc' = "accept"
    /\ cur' = 0
    /\ UNCHANGED <<max_clients, keepalive, tls_acceptor, clients_count, incr_ret, accept_failed, incs,
                   decs, elapsed, phase, parsed, responded, seen_open, admit_count,
                   served_on, rvars, pvars>>

\* The test failed: decrement, continue (the stream is dropped).
Reject ==
    /\ lpc = "check"
    /\ OverLimit(incr_ret, max_clients)
    /\ clients_count' = Decrement(clients_count)
    /\ decs' = [decs EXCEPT ![cur] = @ + 1]
    /\ st' = [st EXCEPT ![cur] = "Rejected"]
    /\ how' = [how EXCEPT ![cur] = "rejected"]
    /\ lpc' = "accept"
    /\ cur' = 0
    /\ UNCHANGED <<max_clients, keepalive, tls_acceptor, incr_ret, accept_failed, incs, elapsed, phase,
                   parsed, responded, seen_open, admit_count,
                   served_on, rvars, pvars>>

\* The test passed: tokio::spawn of the connection task.
Admit ==
    /\ lpc = "check"
    /\ ~OverLimit(incr_ret, max_clients)
    /\ st' = [st EXCEPT ![cur] = "Admitted"]
    /\ admit_count' = [admit_count EXCEPT ![cur] = clients_count]
    /\ lpc' = "accept"
    /\ cur' = 0
    /\ UNCHANGED <<max_clients, keepalive, tls_acceptor, clients_count, incr_ret, accept_failed, how,
                   incs, decs, elapsed, phase, parsed, responded, seen_open,
                   served_on, rvars, pvars>>

\* ------------------------------------------------------ connection task
\* First poll of the spawned task: the timeout future is built, which starts
\* the deadline, and serve_connection begins.
StartTask(c) ==
    /\ st[c] = "Admitted"
    /\ st' = [st EXCEPT ![c] = "Serving"]
    /\ elapsed' = [elapsed EXCEPT ![c] = 0]
    /\ served_on' = [served_on EXCEPT ![c] = "tcp"]
    /\ UNCHANGED <<max_clients, keepalive, tls_acceptor, clients_count, lpc, cur, incr_ret,
                   accept_failed, how, incs, decs, phase, parsed, responded, seen_open,
                   admit_count, rvars, pvars>>

\* The clock advances: every running deadline gets one tick closer.
Tick ==
    /\ \E c \in Conns : st[c] = "Serving" /\ elapsed[c] < TimeoutTicks
    /\ elapsed' = [c \in Conns |->
                      IF st[c] = "Serving" /\ elapsed[c] < TimeoutTicks
                      THEN elapsed[c] + 1 ELSE elapsed[c]]
    /\ UNCHANGED <<max_clients, keepalive, tls_acceptor, clients_count, lpc, cur, incr_ret, accept_failed,
                   st, how, incs, decs, phase, parsed, responded, seen_open, admit_count,
                   served_on, rvars, pvars>>

\* serve_connection parses a request of the client and calls the service.
ClientRequest(c) ==
    /\ st[c] = "Serving"
    /\ phase[c] = "idle"
    /\ keepalive \/ ~responded[c]
    /\ phase' = [phase EXCEPT ![c] = "busy"]
    /\ parsed' = [parsed EXCEPT ![c] = TRUE]
    /\ UNCHANGED <<max_clients, keepalive, tls_acceptor, clients_count, lpc, cur, incr_ret, accept_failed,
                   st, how, incs, decs, elapsed, responded, seen_open, admit_count,
                   served_on, rvars, pvars>>

\* proxy sent the query and awaits socket.recv_from, which has no timeout.
ProxyAwaitRecv(c) ==
    /\ st[c] = "Serving"
    /\ phase[c] = "busy"
    /\ phase' = [phase EXCEPT ![c] = "recv"]
    /\ UNCHANGED <<max_clients, keepalive, tls_acceptor, clients_count, lpc, cur, incr_ret, accept_failed,
                   st, how, incs, decs, elapsed, parsed, responded, seen_open, admit_count,
                   served_on, rvars, pvars>>

\* A datagram (or a receive error) ends the pending recv_from.
UpstreamReply(c) ==
    /\ st[c] = "Serving"
    /\ phase[c] = "recv"
    /\ phase' = [phase EXCEPT ![c] = "busy"]
    /\ UNCHANGED <<max_clients, keepalive, tls_acceptor, clients_count, lpc, cur, incr_ret, accept_failed,
                   st, how, incs, decs, elapsed, parsed, responded, seen_open, admit_count,
                   served_on, rvars, pvars>>

\* Mutant: a written response restarts the deadline (a per-request timeout).
Respond_restartsDeadline(c) ==
    /\ st[c] = "Serving"
    /\ phase[c] = "busy"
    /\ phase' = [phase EXCEPT ![c] = "idle"]
    /\ responded' = [responded EXCEPT ![c] = TRUE]
    /\ elapsed' = [elapsed EXCEPT ![c] = 0]
    /\ UNCHANGED <<max_clients, keepalive, tls_acceptor, clients_count, lpc, cur, incr_ret, accept_failed,
                   st, how, incs, decs, parsed, seen_open, admit_count,
                   served_on, rvars, pvars>>

\* The response of the request is written; the deadline keeps running.
Respond(c) ==
    /\ st[c] = "Serving"
    /\ phase[c] = "busy"
    /\ phase' = [phase EXCEPT ![c] = "idle"]
    /\ responded' = [responded EXCEPT ![c] = TRUE]
    /\ UNCHANGED <<max_clients, keepalive, tls_acceptor, clients_count, lpc, cur, incr_ret, accept_failed,
                   st, how, incs, decs, elapsed, parsed, seen_open, admit_count,
                   served_on, rvars, pvars>>

\* Mutant: the elapsed deadline leaves the task before the decrement.
TaskEnd_timeoutSkipsDecrement(c, r) ==
    /\ st' = [st EXCEPT ![c] = "Closed"]
    /\ how' = [how EXCEPT ![c] = r]
    /\ clients_count' = IF r = "timeout" THEN clients_count ELSE Decrement(clients_count)
    /\ decs' = [decs EXCEPT ![c] = IF r = "timeout" THEN @ ELSE @ + 1]
    /\ elapsed' = [elapsed EXCEPT ![c] = 0]
    /\ UNCHANGED <<max_clients, keepalive, tls_acceptor, lpc, cur, incr_ret, accept_failed, incs,
                   phase, parsed, responded, seen_open, admit_count,
                   served_on, rvars, pvars>>

\* What the task does once the timeout future has resolved with result r:
\* .ok() discards the result (the timeout future and its timer are dropped),
\* then clients_count.decrement().
TaskEnd(c, r) ==
    /\ st' = [st EXCEPT ![c] = "Closed"]
    /\ how' = [how EXCEPT ![c] = r]
    /\ clients_count' = Decrement(clients_count)
    /\ decs' = [decs EXCEPT ![c] = @ + 1]
    /\ elapsed' = [elapsed EXCEPT ![c] = 0]
    /\ UNCHANGED <<max_clients, keepalive, tls_acceptor, lpc, cur, incr_ret, accept_failed, incs,
                   phase, parsed, responded, seen_open, admit_count,
                   served_on, rvars, pvars>>

\* serve_connection returns Ok(()): the client closed the connection between
\* requests, or keep-alive is off and the response was written.
ServeOk(c) ==
    /\ st[c] = "Serving"
    /\ phase[c] = "idle"
    /\ TaskEnd(c, "ok")

\* Mutant: the error path decrements by itself, and the task decrements again.
ServeErr_decrementsTwice(c) ==
    /\ st[c] = "Serving"
    /\ st' = [st EXCEPT ![c] = "Closed"]
    /\ how' = [how EXCEPT ![c] = "io"]
    /\ clients_count' = Decrement(Decrement(clients_count))
    /\ decs' = [decs EXCEPT ![c] = @ + 1]
    /\ elapsed' = [elapsed EXCEPT ![c] = 0]
    /\ UNCHANGED <<max_clients, keepalive, tls_acceptor, lpc, cur, incr_ret, accept_failed, incs,
                   phase, parsed, responded, seen_open, admit_count,
                   served_on, rvars, pvars>>

\* serve_connection returns Err: an I/O or protocol error on the connection.
ServeErr(c) ==
    /\ st[c] = "Serving"
    /\ TaskEnd(c, "io")

\* The deadline elapsed: the timeout future resolves with Err(Elapsed) and
\* drops serve_connection with whatever it was awaiting.
TimeoutFire(c) ==
    /\ st[c] = "Serving"
    /\ elapsed[c] >= TimeoutTicks
    /\ TaskEnd(c, "timeout")

LNext ==
    \/ AcceptOk
    \/ AcceptErr
    \/ Reject
    \/ Admit
    \/ Tick
    \/ \E c \in Conns : StartTask(c)
    \/ \E c \in Conns : ClientRequest(c)
    \/ \E c \in Conns : ProxyAwaitRecv(c)
    \/ \E c \in Conns : UpstreamReply(c)
    \/ \E c \in Conns : Respond(c)
    \/ \E c \in Conns : ServeOk(c)
    \/ \E c \in Conns : ServeErr(c)
    \/ \E c \in Conns : TimeoutFire(c)

\* ====================================================== request handling
\* ------------------------------------------------------------- constants
\* constants::MIN_DNS_PACKET_LEN: the 12-byte header and one more byte.
MIN_DNS_PACKET_LEN == 13

\* constants::MAX_DNS_QUESTION_LEN: the maximum query size.
MAX_DNS_QUESTION_LEN == 512

\* constants::MAX_DNS_RESPONSE_LEN: size of the receive buffer of proxy.
MAX_DNS_RESPONSE_LEN == 4096

\* constants::DNS_QUERY_PARAM
DNS_QUERY_PARAM == <<"d", "n", "s">>

\* globals.path
path == "/dns-query"

\* globals.server_address: <<ip, port>>
server_address == <<"9.9.9.9", 53>>

\* globals.min_ttl, globals.max_ttl, globals.err_ttl
min_ttl == 10
max_ttl == 3600
err_ttl == 2

\* ----------------------------------------------------------------- bounds
\* Largest number of chunks a request body arrives in.
MaxChunks == 2

\* ------------------------------------------------ text: sequences of chars
Rep(ch, n) == [i \in 1..n |-> ch]

UpperChars == <<"A", "B", "C", "D", "E", "F", "G", "H", "I", "J", "K", "L", "M",
                "N", "O", "P", "Q", "R", "S", "T", "U", "V", "W", "X", "Y", "Z">>

LowerChars == <<"a", "b", "c", "d", "e", "f", "g", "h", "i", "j", "k", "l", "m",
                "n", "o", "p", "q", "r", "s", "t", "u", "v", "w", "x", "y", "z">>

Digits == <<"0", "1", "2", "3", "4", "5", "6", "7", "8", "9">>

RECURSIVE FirstFrom(_, _, _)
FirstFrom(ch, s, i) ==
    IF i > Len(s) THEN 0 ELSE IF s[i] = ch THEN i ELSE FirstFrom(ch, s, i + 1)

\* Position of the first ch in the sequence s, 0 when absent.
IndexOf(ch, s) == FirstFrom(ch, s, 1)

\* A byte that is not visible ASCII.
NonAsciiByte == "0xFF"

\* HeaderValue::to_str: fails on a byte that is not visible ASCII.
ToStrOk(v) == \A i \in 1..Len(v) : v[i] # NonAsciiByte

\* str::to_lowercase
ToLowercase(v) ==
    [i \in 1..Len(v) |->
        IF IndexOf(v[i], UpperChars) # 0 THEN LowerChars[IndexOf(v[i], UpperChars)] ELSE v[i]]

\* "application/dns-message"
DNS_MESSAGE_TYPE == <<"a", "p", "p", "l", "i", "c", "a", "t", "i", "o", "n", "/",
                      "d", "n", "s", "-", "m", "e", "s", "s", "a", "g", "e">>

\* str::split: the segments of s between occurrences of sep (at least one).
RECURSIVE Split(_, _)
Split(s, sep) ==
    IF IndexOf(sep, s) = 0 THEN <<s>>
    ELSE <<SubSeq(s, 1, IndexOf(sep, s) - 1)>> \o Split(SubSeq(s, IndexOf(sep, s) + 1, Len(s)), sep)

\* --------------------------------------------- base64 (URL_SAFE_NO_PAD)
B64Alphabet == UpperChars \o LowerChars \o Digits \o <<"-", "_">>

B64Val(ch) == IndexOf(ch, B64Alphabet) - 1

\* The bytes of one full group of four symbols.
B64Group(s, g) ==
    LET v == B64Val(s[4 * g + 1]) * 262144 + B64Val(s[4 * g + 2]) * 4096
             + B64Val(s[4 * g + 3]) * 64 + B64Val(s[4 * g + 4])
    IN <<v \div 65536, (v \div 256) % 256, v % 256>>

RECURSIVE B64Groups(_, _, _)
B64Groups(s, g, n) == IF g >= n THEN <<>> ELSE B64Group(s, g) \o B64Groups(s, g + 1, n)

\* base64::decode_config(s, URL_SAFE_NO_PAD): [ok, bytes].  It fails on a
\* symbol outside the alphabet (padding included), on a length of 1 mod 4 and
\* on non-zero trailing bits in the last symbol.
B64Decode(s) ==
    LET n == Len(s)
        full == n \div 4
        rest == n % 4
        t2 == B64Val(s[n - 1]) * 64 + B64Val(s[n])
        t3 == B64Val(s[n - 2]) * 4096 + B64Val(s[n - 1]) * 64 + B64Val(s[n])
    IN IF \E i \in 1..n : IndexOf(s[i], B64Alphabet) = 0 THEN [ok |-> FALSE, bytes |-> <<>>]
       ELSE IF rest = 1 THEN [ok |-> FALSE, bytes |-> <<>>]
       ELSE IF rest = 2 /\ t2 % 16 # 0 THEN [ok |-> FALSE, bytes |-> <<>>]
       ELSE IF rest = 3 /\ t3 % 4 # 0 THEN [ok |-> FALSE, bytes |-> <<>>]
       ELSE [ok |-> TRUE,
             bytes |-> B64Groups(s, 0, full) \o
                       (IF rest = 2 THEN <<t2 \div 16>>
                        ELSE IF rest = 3 THEN <<t3 \div 1024, (t3 \div 4) % 256>>
                        ELSE <<>>)]

\* ------------------------------------------------------ request inputs
Paths == {path, "/dns-query/", "/"}

Methods == {"GET", "POST", "PUT", "HEAD"}

\* Content-Type header: absent, or present with a value.
NoContentType == [present |-> FALSE, value |-> <<>>]

ContentTypeValues ==
    { DNS_MESSAGE_TYPE,
      <<"A", "p", "p", "l", "i", "c", "a", "t", "i", "o", "n", "/",
        "D", "N", "S", "-", "M", "e", "s", "s", "a", "g", "e">>,
      <<"t", "e", "x", "t", "/", "p", "l", "a", "i", "n">>,
      DNS_MESSAGE_TYPE \o <<";">>,
      <<>>,
      DNS_MESSAGE_TYPE \o <<NonAsciiByte>> }

ContentTypes == {NoContentType} \cup {[present |-> TRUE, value |-> v] : v \in ContentTypeValues}

\* A body chunk is its size, or ChunkErr when reading it failed.
ChunkErr == -1

ChunkSizes == {0, MIN_DNS_PACKET_LEN - 1, MIN_DNS_PACKET_LEN,
               MAX_DNS_QUESTION_LEN - MIN_DNS_PACKET_LEN,
               MAX_DNS_QUESTION_LEN - 1, MAX_DNS_QUESTION_LEN}

RECURSIVE SeqsUpTo(_, _)
SeqsUpTo(S, n) ==
    IF n = 0 THEN {<<>>}
    ELSE SeqsUpTo(S, n - 1) \cup {Append(q, x) : q \in SeqsUpTo(S, n - 1), x \in S}

Bodies == SeqsUpTo(ChunkSizes \cup {ChunkErr}, MaxChunks)

\* Query strings of the request URI.
DnsEq == DNS_QUERY_PARAM \o <<"=">>

DnsQuery == DnsEq \o Rep("A", 18)

Queries ==
    { <<>>,
      DnsQuery,
      DnsEq \o Rep("A", 16),
      DnsEq \o <<"A", "B", "C", "D", "E", "F", "G", "H", "I", "J", "K", "L", "M",
                 "N", "O", "P", "Q", "R", "S", "T", "-", "_">>,
      DnsEq \o Rep("A", 17) \o <<"B">>,
      DnsEq \o Rep("A", 17) \o <<"+">>,
      <<"x", "=", "1", "&">> \o DnsEq \o Rep("A", 18),
      <<"x", "=", "1">>,
      DnsQuery \o <<"=", "A">>,
      DnsQuery \o <<"=", "=">>,
      DnsQuery \o <<"&">> \o DNS_QUERY_PARAM,
      DnsEq \o <<"!", "&">> \o DnsQuery }

\* The requests a behaviour may receive.  A POST comes with any Content-Type
\* and any body; a GET with any query string; requests of other methods with
\* or without a Content-Type, a body and a dns parameter.
Requests ==
    [path : Paths, method : {"POST"}, ctype : ContentTypes, body : Bodies,
     query : {<<>>, DnsQuery}]
    \cup
    [path : Paths, method : {"GET"},
     ctype : {NoContentType, [present |-> TRUE, value |-> DNS_MESSAGE_TYPE]},
     body : {<<>>, <<MIN_DNS_PACKET_LEN>>}, query : Queries]
    \cup
    [path : Paths, method : Methods \ {"GET", "POST"},
     ctype : {NoContentType, [present |-> TRUE, value |-> DNS_MESSAGE_TYPE]},
     body : {<<>>, <<MIN_DNS_PACKET_LEN>>}, query : {<<>>, DnsQuery}]

\* Datagrams the request's socket may receive.
Addresses == {server_address, <<"9.9.9.9", 5353>>, <<"6.6.6.6", 53>>}

DatagramSizes == {0, MIN_DNS_PACKET_LEN - 1, MIN_DNS_PACKET_LEN, 45,
                  MAX_DNS_RESPONSE_LEN + 1}

\* The DNS content of a datagram: its RCODE and the TTLs of its records
\* (Malformed when the records cannot be walked).
Malformed == <<-1>>

DnsContents == [rcode : {0, 2}, ttls : {<<>>, <<5, 300>>, <<120>>, Malformed}]

Datagrams == [src : Addresses, size : DatagramSizes, dns : DnsContents]

NoPacket == [src |-> <<"", 0>>, len |-> -1, dns |-> [rcode |-> 0, ttls |-> <<>>]]

NoResponse == [status |-> 0, content_length |-> 0, max_age |-> -1,
               body |-> [rcode |-> 0, ttls |-> <<>>]]

NoRequest == [path |-> "", method |-> "", ctype |-> NoContentType, body |-> <<>>,
              query |-> <<>>]

RInit ==
    /\ disable_post \in BOOLEAN
    /\ rpc = "idle"
    /\ req = NoRequest
    /\ examined = "none"
    /\ chunks_read = 0
    /\ sum_size = 0
    /\ query_len = 0
    /\ query_data = <<>>
    /\ proxy_calls = 0
    /\ binds = 0
    /\ sends = 0
    /\ recvs = 0
    /\ packet = NoPacket
    /\ err = "none"
    /\ response = NoResponse

\* ------------------------------------------------ errors (StatusCode::from)
StatusOf(e) ==
    CASE e = "Incomplete" -> 400
      [] e = "TooLarge" -> 413
      [] e = "Io" -> 502
      [] e = "UpstreamIssue" -> 502

\* Response::builder().status(s).body(Body::empty())
EmptyResponse(s) == [NoResponse EXCEPT !.status = s]

\* The request future ends with Err(e), turned into a response by call.
Fail(e) ==
    /\ err' = e
    /\ response' = EmptyResponse(StatusOf(e))
    /\ rpc' = "done"

\* Mutant: the value is compared without lowering its case.
CheckContentType_caseSensitive(r) ==
    IF ~r.ctype.present THEN 406
    ELSE IF ~ToStrOk(r.ctype.value) THEN 400
    ELSE IF r.ctype.value # DNS_MESSAGE_TYPE THEN 415
    ELSE 0

\* ------------------------------------------------------ check_content_type
\* 0 for Ok(()), else the status of the Err response.
CheckContentType(r) ==
    IF ~r.ctype.present THEN 406
    ELSE IF ~ToStrOk(r.ctype.value) THEN 400
    ELSE IF ToLowercase(r.ctype.value) # DNS_MESSAGE_TYPE THEN 415
    ELSE 0

\* --------------------------------------------------------- GET parameter
\* The loop over query.split('&'): every pair whose key is dns sets
\* question_str to kv.next(), the segment after the key's '=' (None, here
\* [some |-> FALSE], when the pair has no '=').
RECURSIVE QuestionStr(_, _)
QuestionStr(parts, acc) ==
    IF parts = <<>> THEN acc
    ELSE LET kv == Split(Head(parts), "=")
         IN QuestionStr(Tail(parts),
                IF kv[1] = DNS_QUERY_PARAM
                THEN IF Len(kv) >= 2 THEN [some |-> TRUE, str |-> kv[2]]
                     ELSE [some |-> FALSE, str |-> <<>>]
                ELSE acc)

\* question_str.and_then(|s| decode_config(s, URL_SAFE_NO_PAD).ok())
Question(query) ==
    LET qs == QuestionStr(Split(query, "&"), [some |-> FALSE, str |-> <<>>])
    IN IF qs.some THEN B64Decode(qs.str) ELSE [ok |-> FALSE, bytes |-> <<>>]

\* Mutant: the method is looked at before the path.
Route_methodFirst(r, post_disabled) ==
    IF r.method = "POST" THEN
        IF r.path # path THEN [status |-> 404, next |-> "done", examined |-> "none"]
        ELSE IF post_disabled THEN [status |-> 405, next |-> "done", examined |-> "none"]
        ELSE IF CheckContentType(r) # 0
             THEN [status |-> CheckContentType(r), next |-> "done", examined |-> "ctype"]
        ELSE [status |-> 0, next |-> "read_body", examined |-> "ctype"]
    ELSE IF r.method = "GET" THEN
        IF r.path # path THEN [status |-> 404, next |-> "done", examined |-> "none"]
        ELSE IF ~Question(r.query).ok
             THEN [status |-> 400, next |-> "done", examined |-> "dns"]
        ELSE [status |-> 0, next |-> "proxy", examined |-> "dns"]
    ELSE [status |-> 405, next |-> "done", examined |-> "none"]

\* ------------------------------------------------------------------ call
\* The synchronous part of call: [status, next, examined].  status is that of
\* the response built on the spot (0: none, a future is returned instead);
\* next is where the returned future starts.
Route(r, post_disabled) ==
    IF r.path # path THEN [status |-> 404, next |-> "done", examined |-> "none"]
    ELSE IF r.method = "POST" THEN
        IF post_disabled THEN [status |-> 405, next |-> "done", examined |-> "none"]
        ELSE IF CheckContentType(r) # 0
             THEN [status |-> CheckContentType(r), next |-> "done", examined |-> "ctype"]
        ELSE [status |-> 0, next |-> "read_body", examined |-> "ctype"]
    ELSE IF r.method = "GET" THEN
        IF ~Question(r.query).ok THEN [status |-> 400, next |-> "done", examined |-> "dns"]
        ELSE [status |-> 0, next |-> "proxy", examined |-> "dns"]
    ELSE [status |-> 405, next |-> "done", examined |-> "none"]

Call(r) ==
    /\ rpc = "idle"
    /\ req' = r
    /\ LET route == Route(r, disable_post) IN
        /\ rpc' = route.next
        /\ examined' = route.examined
        /\ response' = IF route.status # 0 THEN EmptyResponse(route.status) ELSE NoResponse
        /\ query_data' = IF route.next = "proxy" THEN Question(r.query).bytes ELSE <<>>
        /\ query_len' = IF route.next = "proxy" THEN Len(Question(r.query).bytes) ELSE 0
    /\ UNCHANGED <<disable_post, chunks_read, sum_size, proxy_calls, binds, sends, recvs,
                   packet, err, lvars, pvars>>

\* ---------------------------------------------------- read_body_and_proxy
\* The size test made after every chunk.
SizeOver(sum) == sum >= MAX_DNS_QUESTION_LEN

\* body.next() yields a chunk.
ReadChunk ==
    /\ rpc = "read_body"
    /\ chunks_read < Len(req.body)
    /\ chunks_read' = chunks_read + 1
    /\ LET chunk == req.body[chunks_read + 1] IN
        IF chunk = ChunkErr
        THEN /\ Fail("TooLarge")
             /\ UNCHANGED <<sum_size, query_len, query_data>>
        ELSE IF SizeOver(sum_size + chunk)
        THEN /\ sum_size' = sum_size + chunk
             /\ Fail("TooLarge")
             /\ UNCHANGED <<query_len, query_data>>
        ELSE /\ sum_size' = sum_size + chunk
             /\ query_len' = query_len + chunk
             /\ query_data' = Append(query_data, chunks_read + 1)
             /\ UNCHANGED <<rpc, err, response>>
    /\ UNCHANGED <<disable_post, req, examined, proxy_calls, binds, sends, recvs, packet, lvars, pvars>>

\* body.next() yields None: the loop ends and proxy(query) is called.
BodyEnd ==
    /\ rpc = "read_body"
    /\ chunks_read = Len(req.body)
    /\ rpc' = "proxy"
    /\ UNCHANGED <<disable_post, req, examined, chunks_read, sum_size, query_len, query_data,
                   proxy_calls, binds, sends, recvs, packet, err, response, lvars, pvars>>

\* ----------------------------------------------------------------- proxy
\* Mutant: the test lets a query one byte short through.
QueryTooShort_offByOne(len) == len < MIN_DNS_PACKET_LEN - 1

\* The length test on the query.
QueryTooShort(len) == len < MIN_DNS_PACKET_LEN

\* Mutant: the socket is bound before the length of the query is tested.
ProxyEnter_bindsFirst ==
    /\ rpc = "proxy"
    /\ proxy_calls' = proxy_calls + 1
    /\ binds' = binds + 1
    /\ IF QueryTooShort(query_len)
       THEN Fail("Incomplete")
       ELSE /\ rpc' = "send"
            /\ UNCHANGED <<err, response>>
    /\ UNCHANGED <<disable_post, req, examined, chunks_read, sum_size, query_len, query_data,
                   sends, recvs, packet, lvars, pvars>>

\* Entry of proxy, up to the await of UdpSocket::bind.  set_edns_max_payload_size
\* edits the query in place: its result is ignored and its length is kept.
ProxyEnter ==
    /\ rpc = "proxy"
    /\ proxy_calls' = proxy_calls + 1
    /\ IF QueryTooShort(query_len)
       THEN Fail("Incomplete")
       ELSE /\ rpc' = "bind"
            /\ UNCHANGED <<err, response>>
    /\ UNCHANGED <<disable_post, req, examined, chunks_read, sum_size, query_len, query_data,
                   binds, sends, recvs, packet, lvars, pvars>>

\* UdpSocket::bind completes.
Bind(ok) ==
    /\ rpc = "bind"
    /\ binds' = binds + 1
    /\ IF ok
       THEN /\ rpc' = "send"
            /\ UNCHANGED <<err, response>>
       ELSE Fail("Io")
    /\ UNCHANGED <<disable_post, req, examined, chunks_read, sum_size, query_len, query_data,
                   proxy_calls, sends, recvs, packet, lvars, pvars>>

\* socket.send_to completes.
Send(ok) ==
    /\ rpc = "send"
    /\ sends' = sends + 1
    /\ IF ok
       THEN /\ rpc' = "recv"
            /\ UNCHANGED <<err, response>>
       ELSE Fail("Io")
    /\ UNCHANGED <<disable_post, req, examined, chunks_read, sum_size, query_len, query_data,
                   proxy_calls, binds, recvs, packet, lvars, pvars>>

\* socket.recv_from fails.
RecvErr ==
    /\ rpc = "recv"
    /\ recvs' = recvs + 1
    /\ Fail("Io")
    /\ UNCHANGED <<disable_post, req, examined, chunks_read, sum_size, query_len, query_data,
                   proxy_calls, binds, sends, packet, lvars, pvars>>

\* Mutant: only the IP of the source is compared, not the port.
ReplyRejected_ipOnly(len, src) == len < MIN_DNS_PACKET_LEN \/ server_address[1] # src[1]

\* The test on the received datagram.
ReplyRejected(len, src) == len < MIN_DNS_PACKET_LEN \/ server_address # src

\* dns::is_recoverable_error: the RCODE is a server failure.
IsRecoverableError(dns) == dns.rcode = 2

RECURSIVE SeqMin(_)
SeqMin(s) == IF Len(s) = 1 THEN s[1]
             ELSE IF s[1] <= SeqMin(Tail(s)) THEN s[1] ELSE SeqMin(Tail(s))

\* dns::min_ttl: [ok, ttl].  The minimum of the record TTLs clamped into
\* min..max; the ceiling when no record carries a TTL; an error when the
\* records cannot be walked.
MinTtl(dns, min, max, errttl) ==
    IF dns.ttls = Malformed THEN [ok |-> FALSE, ttl |-> 0]
    ELSE IF dns.ttls = <<>> THEN [ok |-> TRUE, ttl |-> max]
    ELSE LET m == SeqMin(dns.ttls)
         IN [ok |-> TRUE, ttl |-> IF m < min THEN min ELSE IF m > max THEN max ELSE m]

\* Mutant: a datagram that fails the test is dropped and the next one awaited.
Recv_waitsForNext(d) ==
    /\ rpc = "recv"
    /\ recvs' = recvs + 1
    /\ LET len == IF d.size > MAX_DNS_RESPONSE_LEN THEN MAX_DNS_RESPONSE_LEN ELSE d.size IN
        /\ packet' = [src |-> d.src, len |-> len, dns |-> d.dns]
        /\ IF ReplyRejected(len, d.src) THEN UNCHANGED <<rpc, err, response>>
           ELSE IF IsRecoverableError(d.dns)
           THEN /\ response' = [status |-> 200, content_length |-> len, max_age |-> err_ttl,
                                body |-> d.dns]
                /\ rpc' = "done"
                /\ UNCHANGED err
           ELSE IF ~MinTtl(d.dns, min_ttl, max_ttl, err_ttl).ok THEN Fail("UpstreamIssue")
           ELSE /\ response' = [status |-> 200, content_length |-> len,
                                max_age |-> MinTtl(d.dns, min_ttl, max_ttl, err_ttl).ttl,
                                body |-> d.dns]
                /\ rpc' = "done"
                /\ UNCHANGED err
    /\ UNCHANGED <<disable_post, req, examined, chunks_read, sum_size, query_len, query_data,
                   proxy_calls, binds, sends, lvars, pvars>>

\* Mutant: min_ttl is computed first, and its failure returned, before the
\* test for a recoverable error.
Recv_minTtlFirst(d) ==
    /\ rpc = "recv"
    /\ recvs' = recvs + 1
    /\ LET len == IF d.size > MAX_DNS_RESPONSE_LEN THEN MAX_DNS_RESPONSE_LEN ELSE d.size IN
        /\ packet' = [src |-> d.src, len |-> len, dns |-> d.dns]
        /\ IF ReplyRejected(len, d.src) THEN Fail("UpstreamIssue")
           ELSE IF ~MinTtl(d.dns, min_ttl, max_ttl, err_ttl).ok THEN Fail("UpstreamIssue")
           ELSE /\ response' = [status |-> 200, content_length |-> len,
                                max_age |-> IF IsRecoverableError(d.dns) THEN err_ttl
                                            ELSE MinTtl(d.dns, min_ttl, max_ttl, err_ttl).ttl,
                                body |-> d.dns]
                /\ rpc' = "done"
                /\ UNCHANGED err
    /\ UNCHANGED <<disable_post, req, examined, chunks_read, sum_size, query_len, query_data,
                   proxy_calls, binds, sends, lvars, pvars>>

\* socket.recv_from returns the datagram d (cut to the buffer), and proxy
\* runs to its end.
Recv(d) ==
    /\ rpc = "recv"
    /\ recvs' = recvs + 1
    /\ LET len == IF d.size > MAX_DNS_RESPONSE_LEN THEN MAX_DNS_RESPONSE_LEN ELSE d.size IN
        /\ packet' = [src |-> d.src, len |-> len, dns |-> d.dns]
        /\ IF ReplyRejected(len, d.src) THEN Fail("UpstreamIssue")
           ELSE IF IsRecoverableError(d.dns)
           THEN /\ response' = [status |-> 200, content_length |-> len, max_age |-> err_ttl,
                                body |-> d.dns]
                /\ rpc' = "done"
                /\ UNCHANGED err
           ELSE IF ~MinTtl(d.dns, min_ttl, max_ttl, err_ttl).ok THEN Fail("UpstreamIssue")
           ELSE /\ response' = [status |-> 200, content_length |-> len,
                                max_age |-> MinTtl(d.dns, min_ttl, max_ttl, err_ttl).ttl,
                                body |-> d.dns]
                /\ rpc' = "done"
                /\ UNCHANGED err
    /\ UNCHANGED <<disable_post, req, examined, chunks_read, sum_size, query_len, query_data,
                   proxy_calls, binds, sends, lvars, pvars>>

\* serve_connection hands a parsed request to the service.
ServeRequest ==
    /\ rpc = "idle"
    /\ \E r \in Requests : Call(r)

\* A datagram reaches the socket of the request.
RecvFrom ==
    /\ rpc = "recv"
    /\ \E d \in Datagrams : Recv(d)

RNext ==
    \/ ServeRequest
    \/ ReadChunk
    \/ BodyEnd
    \/ ProxyEnter
    \/ \E ok \in BOOLEAN : Bind(ok)
    \/ \E ok \in BOOLEAN : Send(ok)
    \/ RecvErr
    \/ RecvFrom

\* ================================================ concurrent proxy calls
\* Number of calls of proxy that run concurrently.
NProxy == 2

Calls == 1..NProxy

Sockets == 1..NProxy

NoDatagram == [to |-> 0, re |-> 0, src |-> "none"]

PInit ==
    /\ ppc = [p \in Calls |-> "idle"]
    /\ sock = [p \in Calls |-> 0]
    /\ next_sock = 0
    /\ open_socks = {}
    /\ wire = {}
    /\ inbox = [k \in Sockets |-> {}]
    /\ answer = [p \in Calls |-> NoDatagram]

\* Mutant: one socket, bound by the first call, is shared by all the calls.
PBind_shared(p) ==
    /\ ppc[p] = "idle"
    /\ sock' = [sock EXCEPT ![p] = 1]
    /\ next_sock' = 1
    /\ open_socks' = open_socks \cup {1}
    /\ ppc' = [ppc EXCEPT ![p] = "send"]
    /\ UNCHANGED <<wire, inbox, answer, lvars, rvars>>

\* UdpSocket::bind(local_bind_address): a new socket, owned by this call.
PBind(p) ==
    /\ ppc[p] = "idle"
    /\ sock' = [sock EXCEPT ![p] = next_sock + 1]
    /\ next_sock' = next_sock + 1
    /\ open_socks' = open_socks \cup {next_sock + 1}
    /\ ppc' = [ppc EXCEPT ![p] = "send"]
    /\ UNCHANGED <<wire, inbox, answer, lvars, rvars>>

\* socket.send_to(query, server_address): the query leaves from the socket.
PSend(p) ==
    /\ ppc[p] = "send"
    /\ wire' = wire \cup {[from |-> sock[p], call |-> p]}
    /\ ppc' = [ppc EXCEPT ![p] = "recv"]
    /\ UNCHANGED <<sock, next_sock, open_socks, inbox, answer, lvars, rvars>>

\* The resolver answers a query: its reply goes to the socket the query came
\* from, and is lost if that socket is gone.
Resolve(q) ==
    /\ q \in wire
    /\ wire' = wire \ {q}
    /\ inbox' = IF q.from \in open_socks
                THEN [inbox EXCEPT ![q.from] = @ \cup {[to |-> q.from, re |-> q.call,
                                                       src |-> "resolver"]}]
                ELSE inbox
    /\ UNCHANGED <<ppc, sock, next_sock, open_socks, answer, lvars, rvars>>

\* Some other host sends a datagram to the port of an open socket.
Stray(k) ==
    /\ k \in open_socks
    /\ inbox' = [inbox EXCEPT ![k] = @ \cup {[to |-> k, re |-> 0, src |-> "other"]}]
    /\ UNCHANGED <<ppc, sock, next_sock, open_socks, wire, answer, lvars, rvars>>

\* The call ends and its local variable socket is dropped.
PClose(p) ==
    /\ ppc' = [ppc EXCEPT ![p] = "done"]
    /\ open_socks' = open_socks \ {sock[p]}
    /\ inbox' = [inbox EXCEPT ![sock[p]] = {}]

\* socket.recv_from returns a datagram that was delivered to the socket of
\* the call; proxy goes on without the socket.
PRecv(p) ==
    /\ ppc[p] = "recv"
    /\ \E d \in inbox[sock[p]] : answer' = [answer EXCEPT ![p] = d]
    /\ PClose(p)
    /\ UNCHANGED <<sock, next_sock, wire, lvars, rvars>>

\* The deadline of the connection drops the call at send_to or recv_from.
PDrop(p) ==
    /\ ppc[p] \in {"send", "recv"}
    /\ PClose(p)
    /\ UNCHANGED <<sock, next_sock, wire, answer, lvars, rvars>>

PNext ==
    \/ \E p \in Calls : PBind(p)
    \/ \E p \in Calls : PSend(p)
    \/ \E q \in wire : Resolve(q)
    \/ \E k \in Sockets : Stray(k)
    \/ \E p \in Calls : PRecv(p)
    \/ \E p \in Calls : PDrop(p)

\* ========================================================= specifications
vars == <<lvars, rvars, pvars>>

\* The listener; no request is looked into.
Init == LInit /\ RInit /\ PInit /\ disable_post = FALSE

Next == LNext

Spec == Init /\ [][Next]_vars

\* One request, from call to its response; the listener stands still.
ReqInit == LInit /\ keepalive = TRUE /\ tls_acceptor = "none" /\ RInit /\ PInit

ReqNext == RNext

ReqSpec == ReqInit /\ [][ReqNext]_vars

\* The listener with keep-alive on and no TLS material (the defaults of main).
LiveInit == Init /\ keepalive = TRUE /\ tls_acceptor = "none"

\* The fairness of the runtime: a spawned task is polled, the clock advances
\* and an expired deadline wakes its task.  Nothing is assumed of clients or
\* of the resolver.

LiveSpec ==
    /\ LiveInit
    /\ [][Next]_vars
    /\ WF_vars(Tick)
    /\ \A c \in Conns : WF_vars(StartTask(c))
    /\ \A c \in Conns : WF_vars(TimeoutFire(c))

\* Concurrent calls of proxy; the listener and the request stand still.
ProxyInit == ReqInit /\ disable_post = FALSE

ProxyNext == PNext

ProxySpec == ProxyInit /\ [][ProxyNext]_vars

TypeOK ==
    /\ clients_count \in Int
    /\ lpc \in {"accept", "check"}

\* ------------------------------------------------------------------ claims
\* C1: the connections admitted and not yet closed never number more than
\* max_clients; a connection accepted while max_clients connections are being
\* served is rejected, the others are admitted, and a rejected connection
\* sees no HTTP processing and no response.
C1_AdmissionBound ==
    /\ Cardinality(Open) <= max_clients
    /\ \A c \in Conns :
          /\ st[c] = "Rejected" => ~parsed[c] /\ ~responded[c]
          /\ st[c] \notin {"Idle", "Accepted"} =>
                (st[c] = "Rejected" <=> seen_open[c] >= max_clients)

C1_Witness ==
    /\ \E c \in Conns : st[c] = "Rejected"
    /\ Cardinality({c \in Conns : st[c] = "Serving" /\ parsed[c]}) = max_clients

\* C2: on behalf of every accepted connection the counter is incremented
\* exactly once and, on each exit path (rejection, completion, connection
\* error, timeout), decremented exactly once: never twice, never skipped.
C2_OneIncrementOneDecrement ==
    \A c \in Conns :
        /\ st[c] = "Idle" => incs[c] = 0 /\ decs[c] = 0
        /\ st[c] \in {"Accepted", "Admitted", "Serving"} => incs[c] = 1 /\ decs[c] = 0
        /\ st[c] \in {"Closed", "Rejected"} => incs[c] = 1 /\ decs[c] = 1
        /\ st[c] = "Rejected" <=> how[c] = "rejected"
        /\ st[c] = "Closed" <=> how[c] \in {"ok", "io", "timeout"}

C2_Witness ==
    /\ \E c \in Conns : how[c] = "timeout" /\ decs[c] = 1
    /\ \E c \in Conns : how[c] \in {"rejected", "ok", "io"} /\ decs[c] = 1

\* C3: outside the window between the increment and the admission decision
\* the counter equals the number of connections admitted and not yet closed;
\* once every accepted connection has closed the counter is 0.
C3_CounterIsOpenConnections ==
    /\ lpc = "accept" => clients_count = Cardinality(Open)
    /\ (\A c \in Conns : st[c] \in {"Idle", "Closed", "Rejected"}) => clients_count = 0

C3_Witness ==
    /\ \A c \in Conns : st[c] \in {"Closed", "Rejected"}
    /\ \E c \in Conns : st[c] = "Rejected"
    /\ \E c \in Conns : st[c] = "Closed"
    /\ clients_count = 0

\* C4: the counter stays within 0 .. max_clients + 1; it is max_clients + 1
\* only between the increment of a connection that is being rejected and the
\* decrement of that rejection; at every admission it is within 0 .. max_clients.
C4_CounterRange ==
    /\ clients_count >= 0
    /\ clients_count <= max_clients + 1
    /\ clients_count = max_clients + 1 => lpc = "check" /\ incr_ret > max_clients
    /\ \A c \in Conns : st[c] \notin {"Idle", "Accepted", "Rejected"} =>
          admit_count[c] \in 0..max_clients

C4_Witness ==
    /\ clients_count = max_clients + 1
    /\ \E c \in Conns : st[c] = "Serving" /\ admit_count[c] = max_clients

\* C5: every admitted connection is eventually closed with its decrement
\* done, also when the resolver never answers and when the client keeps
\* sending requests: the deadline started with the task is not restarted.
C5_AdmittedEventuallyClosed ==
    \A c \in Conns : (st[c] = "Admitted") ~> (st[c] = "Closed" /\ decs[c] = 1)

C5_Witness ==
    \E c \in Conns :
        /\ st[c] = "Closed"
        /\ how[c] = "timeout"
        /\ phase[c] = "recv"
        /\ responded[c]
        /\ decs[c] = 1

\* C6: a received datagram whose source address (IP or port) is not
\* server_address, or whose length is below MIN_DNS_PACKET_LEN, ends the
\* request with UpstreamIssue whatever it contains; a 200 response is built
\* only from a datagram of server_address of at least MIN_DNS_PACKET_LEN
\* bytes, and carries that datagram.
C6_OnlyValidatedReplies ==
    /\ (packet # NoPacket /\ (packet.src # server_address \/ packet.len < MIN_DNS_PACKET_LEN))
          => err = "UpstreamIssue" /\ response.status = 502
    /\ response.status = 200 =>
          /\ packet # NoPacket
          /\ packet.src = server_address
          /\ packet.len >= MIN_DNS_PACKET_LEN
          /\ response.body = packet.dns
          /\ response.content_length = packet.len

C6_Witness ==
    /\ packet.src[1] = server_address[1]
    /\ packet.src[2] # server_address[2]
    /\ packet.len >= MIN_DNS_PACKET_LEN
    /\ packet.dns = [rcode |-> 0, ttls |-> <<120>>]
    /\ err = "UpstreamIssue"

\* C7: a query shorter than MIN_DNS_PACKET_LEN, from a GET parameter or from
\* a POST body, makes proxy return Incomplete with no socket bound, nothing
\* sent and nothing received.
C7_ShortQueryNoIo ==
    (proxy_calls > 0 /\ query_len < MIN_DNS_PACKET_LEN) =>
        /\ err = "Incomplete"
        /\ response.status = 400
        /\ binds = 0 /\ sends = 0 /\ recvs = 0

C7_Witness ==
    /\ proxy_calls > 0
    /\ query_len = MIN_DNS_PACKET_LEN - 1
    /\ req.method = "GET"
    /\ err = "Incomplete"

\* C8: routing precedence: a wrong path gives 404 whatever the method and
\* headers; else a method other than GET and POST gives 405; else a POST
\* with POST disabled gives 405 whatever the Content-Type; the Content-Type
\* (POST) or the dns parameter (GET) is examined only after these.
C8_RoutingPrecedence ==
    rpc # "idle" =>
        /\ req.path # path => response.status = 404 /\ examined = "none"
        /\ (req.path = path /\ req.method \notin {"GET", "POST"}) =>
              response.status = 405 /\ examined = "none"
        /\ (req.path = path /\ req.method = "POST" /\ disable_post) =>
              response.status = 405 /\ examined = "none"
        /\ examined = "ctype" => req.path = path /\ req.method = "POST" /\ ~disable_post
        /\ examined = "dns" => req.path = path /\ req.method = "GET"
        /\ (req.path = path /\ req.method = "POST" /\ ~disable_post) => examined = "ctype"
        /\ (req.path = path /\ req.method = "GET") => examined = "dns"

C8_Witness ==
    /\ rpc = "done"
    /\ req.path = path
    /\ req.method = "POST"
    /\ disable_post
    /\ req.ctype.present /\ req.ctype.value # DNS_MESSAGE_TYPE
    /\ response.status = 405

\* Two texts that differ at most in the case of their letters.
SameIgnoringCase(a, b) ==
    /\ Len(a) = Len(b)
    /\ \A i \in 1..Len(a) :
          \/ a[i] = b[i]
          \/ \E k \in 1..26 : {a[i], b[i]} = {UpperChars[k], LowerChars[k]}

\* C9: for a POST to the configured path with POST enabled: no Content-Type
\* gives 406, an undecodable value 400, a decodable value that is not
\* application/dns-message up to case 415, with no body chunk read in these
\* three cases; a value equal up to case lets the body be read.
C9_ContentTypeChecks ==
    (rpc # "idle" /\ req.path = path /\ req.method = "POST" /\ ~disable_post) =>
        LET v == req.ctype.value
            decodable == \A i \in 1..Len(v) : v[i] # NonAsciiByte
        IN  /\ ~req.ctype.present =>
                  response.status = 406 /\ err = "none" /\ chunks_read = 0
            /\ (req.ctype.present /\ ~decodable) =>
                  response.status = 400 /\ err = "none" /\ chunks_read = 0
            /\ (req.ctype.present /\ decodable /\ ~SameIgnoringCase(v, DNS_MESSAGE_TYPE)) =>
                  response.status = 415 /\ err = "none" /\ chunks_read = 0
            /\ (req.ctype.present /\ decodable /\ SameIgnoringCase(v, DNS_MESSAGE_TYPE)) =>
                  /\ rpc = "done" => err # "none" \/ response.status = 200
                  /\ rpc = "read_body" => chunks_read <= Len(req.body)
                  /\ rpc \notin {"read_body", "done"} => chunks_read = Len(req.body)

C9_Witness ==
    /\ req.path = path /\ req.method = "POST" /\ ~disable_post
    /\ req.ctype.present
    /\ req.ctype.value # DNS_MESSAGE_TYPE
    /\ SameIgnoringCase(req.ctype.value, DNS_MESSAGE_TYPE)
    /\ chunks_read > 0
    /\ response.status = 200

RECURSIVE SumTo(_, _)
SumTo(b, n) == IF n <= 0 THEN 0 ELSE b[n] + SumTo(b, n - 1)

\* C10: a POST body is rejected with TooLarge at the first chunk after which
\* the running total exceeds MAX_DNS_QUESTION_LEN, before any later chunk is
\* read and without a call of proxy; a body whose total does not exceed
\* MAX_DNS_QUESTION_LEN (a total equal to it included) is not rejected as
\* TooLarge and reaches proxy in full.  (Bodies whose chunks are all read
\* without error.)
C10_TooLargeOnlyBeyondMaximum ==
    (rpc # "idle" /\ req.method = "POST"
        /\ \A i \in 1..Len(req.body) : req.body[i] # ChunkErr) =>
        /\ err = "TooLarge" =>
              /\ SumTo(req.body, chunks_read) > MAX_DNS_QUESTION_LEN
              /\ SumTo(req.body, chunks_read - 1) <= MAX_DNS_QUESTION_LEN
              /\ proxy_calls = 0
        /\ SumTo(req.body, chunks_read) > MAX_DNS_QUESTION_LEN => err = "TooLarge"
        /\ proxy_calls > 0 =>
              /\ chunks_read = Len(req.body)
              /\ query_len = SumTo(req.body, Len(req.body))

\* The dns parameter as a URI reader takes it: of the pairs between '&', the
\* last one whose text before its first '=' is dns; its value is all the text
\* after that first '=' (none when the pair has no '=').
RECURSIVE DnsParam(_, _)
DnsParam(parts, acc) ==
    IF parts = <<>> THEN acc
    ELSE LET p == Head(parts)
             i == IndexOf("=", p)
             key == IF i = 0 THEN p ELSE SubSeq(p, 1, i - 1)
         IN DnsParam(Tail(parts),
                IF key = DNS_QUERY_PARAM
                THEN [some |-> i # 0, str |-> SubSeq(p, i + 1, Len(p))]
                ELSE acc)

DnsParamOf(query) == DnsParam(Split(query, "&"), [some |-> FALSE, str |-> <<>>])

\* C11: for a GET to the configured path: without a dns parameter, or with a
\* value that is not valid unpadded base64url, the response is 400 and proxy
\* is not called; with a value that decodes, proxy gets exactly the decoded
\* bytes.
C11_GetParameter ==
    (rpc # "idle" /\ req.path = path /\ req.method = "GET") =>
        LET v == DnsParamOf(req.query) IN
            /\ (~v.some \/ ~B64Decode(v.str).ok) =>
                  response.status = 400 /\ err = "none" /\ proxy_calls = 0
            /\ (v.some /\ B64Decode(v.str).ok) =>
                  /\ rpc = "done" => err # "none" \/ response.status = 200
                  /\ rpc # "done" => query_data = B64Decode(v.str).bytes

\* Number of occurrences of ch in s.
RECURSIVE Count(_, _)
Count(ch, s) == IF s = <<>> THEN 0 ELSE (IF Head(s) = ch THEN 1 ELSE 0) + Count(ch, Tail(s))

\* C17: a dns pair is split at its first '=' only: with a further '=' in the
\* pair (dns=X=Y) the decoder gets 'X=Y', so the request is answered 400 and
\* proxy is never called with the bytes of 'X'.
C17_SplitAtFirstEquals ==
    (rpc # "idle" /\ req.path = path /\ req.method = "GET"
        /\ DnsParamOf(req.query).some
        /\ Count("=", DnsParamOf(req.query).str) > 0) =>
        /\ response.status = 400
        /\ proxy_calls = 0
        /\ query_data = <<>>

\* C12: for a validated reply the max-age of the 200 response is err_ttl when
\* is_recoverable_error holds of it (min_ttl is then not consulted, so its
\* failure does not matter), and else the value min_ttl returns; when min_ttl
\* fails the request ends with UpstreamIssue and no 200 response.
C12_MaxAge ==
    (packet # NoPacket /\ packet.src = server_address /\ packet.len >= MIN_DNS_PACKET_LEN) =>
        IF IsRecoverableError(packet.dns)
        THEN response.status = 200 /\ response.max_age = err_ttl /\ err = "none"
        ELSE IF MinTtl(packet.dns, min_ttl, max_ttl, err_ttl).ok
        THEN /\ response.status = 200
             /\ response.max_age = MinTtl(packet.dns, min_ttl, max_ttl, err_ttl).ttl
             /\ err = "none"
        ELSE err = "UpstreamIssue" /\ response.status = 502

C12_Witness ==
    /\ packet.src = server_address /\ packet.len >= MIN_DNS_PACKET_LEN
    /\ packet.dns = [rcode |-> 2, ttls |-> Malformed]
    /\ response.status = 200
    /\ response.max_age = err_ttl

\* C14: a request rejected for its shape causes no upstream I/O: with a 404,
\* 405, 406, 415 or 413 response, or a 400 built by call, proxy was not even
\* called, and with any 4xx response no socket was bound, no datagram sent
\* and none received.
C14_RejectedWithoutUpstreamIo ==
    /\ (response.status \in {404, 405, 406, 415, 413}
            \/ (response.status = 400 /\ err = "none")) => proxy_calls = 0
    /\ response.status \in 400..499 => binds = 0 /\ sends = 0 /\ recvs = 0

C14_Witness ==
    /\ response.status = 413
    /\ chunks_read = 2
    /\ sum_size > MAX_DNS_QUESTION_LEN
    /\ query_len >= MIN_DNS_PACKET_LEN
    /\ binds = 0 /\ sends = 0

\* C15 as claimed: every call of proxy that passes the length test sends
\* exactly one datagram and receives at most one; nothing is received after
\* a failed send, and the first datagram received ends the call.
C15_ExactlyOneSend ==
    /\ sends <= 1
    /\ recvs <= 1
    /\ recvs = 1 => sends = 1 /\ rpc = "done"
    /\ (rpc = "done" /\ proxy_calls > 0 /\ query_len >= MIN_DNS_PACKET_LEN) => sends = 1

\* C15 as amended: a call of proxy that passes the length test and binds its
\* socket calls send_to exactly once (a call whose bind fails sends nothing)
\* and receives at most one datagram: after a failed send nothing is
\* received, and the first datagram received, accepted or rejected as
\* UpstreamIssue, ends the call, which neither sends nor receives again.
C15_OneExchange ==
    /\ sends <= 1
    /\ recvs <= 1
    /\ recvs = 1 => sends = 1 /\ rpc = "done"
    /\ rpc = "recv" => sends = 1 /\ recvs = 0
    /\ (rpc = "done" /\ proxy_calls > 0 /\ query_len >= MIN_DNS_PACKET_LEN) =>
          IF err = "Io" /\ sends = 0 THEN binds = 1 /\ recvs = 0
          ELSE sends = 1 /\ binds = 1
    /\ (packet # NoPacket
            /\ (packet.src # server_address \/ packet.len < MIN_DNS_PACKET_LEN)) =>
          rpc = "done" /\ err = "UpstreamIssue" /\ recvs = 1

C15_Witness ==
    /\ rpc = "done"
    /\ sends = 1 /\ recvs = 1
    /\ packet.src # server_address
    /\ packet.len >= MIN_DNS_PACKET_LEN
    /\ err = "UpstreamIssue"

\* C16: TooLarge (413) answers a POST only when the size of its body went
\* over the maximum; a chunk of the body that fails to be read ends the
\* request with Io (502), not TooLarge.
C16_ChunkFailureIsIo ==
    (rpc = "done" /\ proxy_calls = 0 /\ chunks_read > 0
        /\ req.body[chunks_read] = ChunkErr) =>
        err = "Io" /\ response.status = 502

\* C13: when a TLS acceptor was built, every admitted connection is wrapped
\* by it before HTTP is served: the stream given to serve_connection, on
\* which requests are parsed, is the TLS stream.
C13_TlsWrapsAdmitted ==
    \A c \in Conns :
        (tls_acceptor = "built" /\ st[c] \in {"Serving", "Closed"}) => served_on[c] = "tls"

\* C19: a failed accept changes neither the counter nor any connection
\* (none is accepted, admitted, rejected or closed and no task is spawned),
\* and the listener is back at accept, where the next connection is taken.
C19_FailedAcceptHarmless ==
    [][(accept_failed' # accept_failed) =>
          /\ accept_failed'
          /\ lpc = "accept" /\ lpc' = "accept"
          /\ UNCHANGED <<clients_count, cur, incr_ret, st, how, incs, decs, elapsed, phase,
                         parsed, responded, seen_open, admit_count, served_on>>]_vars

C19_Witness ==
    /\ accept_failed
    /\ lpc = "check"
    /\ cur = 1
    /\ st[1] = "Accepted"
    /\ clients_count = 1

\* C18: every call of proxy binds a socket of its own: no socket is used by
\* two calls, the datagram a call returns as its answer was delivered to the
\* socket of that call, and a reply of the resolver to the query of one call
\* is never the answer of another call.
C18_OwnSocket ==
    /\ \A p, q \in Calls : (p # q /\ sock[p] # 0 /\ sock[q] # 0) => sock[p] # sock[q]
    /\ \A p \in Calls :
          answer[p] # NoDatagram =>
              /\ answer[p].to = sock[p]
              /\ answer[p].re \in {0, p}
              /\ \A q \in Calls : q # p => answer[p].to # sock[q]
    /\ \A k \in Sockets : \A d \in inbox[k] :
          /\ d.to = k
          /\ k \in open_socks
          /\ Cardinality({p \in Calls : sock[p] = k}) = 1

C18_Witness ==
    /\ sock[1] = 2 /\ sock[2] = 1
    /\ answer[1] = [to |-> 2, re |-> 1, src |-> "resolver"]
    /\ ppc[2] = "recv"
    /\ [to |-> 1, re |-> 2, src |-> "resolver"] \in inbox[1]
====
